---------------------------- MODULE Spec2Model ----------------------------
(***************************************************************************)
(* Model of the two file organizers of the repository:                     *)
(*   - .kiro/src (main.py, cleaner.py, undo.py, categorizer.py): the       *)
(*     FileCleaner / UndoManager pair with a JSON history file;            *)
(*   - desktop_cleaner.py: plan_moves / clean_desktop / undo_last_run with *)
(*     one clean_<timestamp>.log per run.                                  *)
(* Strings are sequences of one-character strings, so that suffix(),       *)
(* lower(), startswith(), strip() and split() are computed as the code     *)
(* computes them.  A path is the sequence of its components.               *)
(***************************************************************************)
EXTENDS Integers, Sequences, FiniteSets, TLC

VARIABLES
    fs,        \* the filesystem: path -> node, for the paths that exist
    platform,  \* "posix" or "nt": decides what os.rename does on an existing target
    mappings,  \* FileCategorizer.mappings, in dict order
    cwd,       \* the working directory the relative history file resolves against
    alive,     \* a FileCleaner (with its UndoManager) object exists
    history,   \* UndoManager.history of the live object
    pc,        \* where the live .kiro object is: ready, iter, mkdir, record, rename, undoall
    todo,      \* the entries of directory.iterdir() not yet visited by organize
    cur,       \* the file organize is moving
    dry,       \* organize's / clean_desktop's dry_run argument
    logs,      \* ~/.desktop-cleaner/logs: timestamp -> lines of clean_<timestamp>.log
    clock,     \* dt.datetime.now() at one-second resolution
    dpc,       \* where desktop_cleaner.py is: none, moving, log, undo
    dtodo,     \* the moves of plan_moves not yet executed
    ddone,     \* the moves of the plan in plan order, as far as executed
    dundo,     \* the moves parse_log returned that undo_last_run has not visited
    out,       \* the moves the current dry run has reported: <<"Would move", name, category>>
    last,      \* the handler that finished last, what it returned, the record it tried
    snap,      \* how far an execute / undo round trip has come, and whether the
               \* current run has been left alone (no external change, no fault)
    budget     \* what is left of the bounds: operations, external changes, faults

vars == <<fs, platform, mappings, cwd, alive, history, pc, todo, cur, dry, logs, clock,
          dpc, dtodo, ddone, dundo, out, last, snap, budget>>

-----------------------------------------------------------------------------
(* Bounds of the model *)

\* top-level operations (process starts and library calls) in one behaviour
MaxOps == 2
\* external changes to the filesystem (a file deleted or created by the user)
MaxExt == 1
\* injected I/O failures (a write or a rename that the operating system refuses)
MaxFaults == 1
\* files the target directory of the .kiro organizer starts with (the history
\* file not counted); desktop_cleaner.py, which skips hidden files, gets one more
MaxFiles == 2
\* seconds the clock can advance
MaxClock == 1

-----------------------------------------------------------------------------
(* Strings *)

\* str.lower() on one character
LowerChar(c) ==
    CASE c = "A" -> "a" [] c = "B" -> "b" [] c = "C" -> "c" [] c = "D" -> "d"
      [] c = "E" -> "e" [] c = "F" -> "f" [] c = "G" -> "g" [] c = "H" -> "h"
      [] c = "I" -> "i" [] c = "J" -> "j" [] c = "K" -> "k" [] c = "L" -> "l"
      [] c = "M" -> "m" [] c = "N" -> "n" [] c = "O" -> "o" [] c = "P" -> "p"
      [] c = "Q" -> "q" [] c = "R" -> "r" [] c = "S" -> "s" [] c = "T" -> "t"
      [] c = "U" -> "u" [] c = "V" -> "v" [] c = "W" -> "w" [] c = "X" -> "x"
      [] c = "Y" -> "y" [] c = "Z" -> "z" [] OTHER -> c

\* str.lower()
Lower(s) == [i \in 1..Len(s) |-> LowerChar(s[i])]

\* str.rfind(c), 1-based; 0 when c does not occur
RFind(s, c) ==
    LET hits == {i \in 1..Len(s) : s[i] = c}
    IN IF hits = {} THEN 0 ELSE CHOOSE i \in hits : \A j \in hits : j <= i

\* str.find(c), 1-based; 0 when c does not occur
Find(s, c) ==
    LET hits == {i \in 1..Len(s) : s[i] = c}
    IN IF hits = {} THEN 0 ELSE CHOOSE i \in hits : \A j \in hits : i <= j

\* str.startswith(p)
StartsWith(s, p) == Len(s) >= Len(p) /\ SubSeq(s, 1, Len(p)) = p

\* the characters str.strip() removes
IsSpace(c) == c \in {" ", "\t", "\n", "\r"}

\* str.strip()
Strip(s) ==
    LET keep == {i \in 1..Len(s) : ~IsSpace(s[i])}
    IN IF keep = {} THEN <<>>
       ELSE SubSeq(s, CHOOSE i \in keep : \A j \in keep : i <= j,
                      CHOOSE i \in keep : \A j \in keep : j <= i)

\* PurePath.suffix of a file name: from the last dot, unless the dot is the
\* first or the last character
Suffix(name) ==
    LET i == RFind(name, ".")
    IN IF 1 < i /\ i < Len(name) THEN SubSeq(name, i, Len(name)) ELSE <<>>

\* x in list
InList(x, list) == \E k \in 1..Len(list) : list[k] = x

-----------------------------------------------------------------------------
(* Category tables *)

\* .kiro/src/categorizer.py: CATEGORY_MAPPINGS, in dict order
CATEGORY_MAPPINGS == <<
    <<<<"I", "m", "a", "g", "e", "s">>, <<<<".", "j", "p", "g">>, <<".", "j", "p", "e", "g">>, <<".", "p", "n", "g">>, <<".", "g", "i", "f">>, <<".", "b", "m", "p">>, <<".", "s", "v", "g">>, <<".", "w", "e", "b", "p">>>> >>,
    <<<<"D", "o", "c", "u", "m", "e", "n", "t", "s">>, <<<<".", "p", "d", "f">>, <<".", "d", "o", "c">>, <<".", "d", "o", "c", "x">>, <<".", "t", "x", "t">>, <<".", "o", "d", "t">>, <<".", "r", "t", "f">>>> >>,
    <<<<"V", "i", "d", "e", "o", "s">>, <<<<".", "m", "p", "4">>, <<".", "a", "v", "i">>, <<".", "m", "k", "v">>, <<".", "m", "o", "v">>, <<".", "w", "m", "v">>, <<".", "f", "l", "v">>>> >>,
    <<<<"A", "u", "d", "i", "o">>, <<<<".", "m", "p", "3">>, <<".", "w", "a", "v">>, <<".", "f", "l", "a", "c">>, <<".", "a", "a", "c">>, <<".", "o", "g", "g">>, <<".", "m", "4", "a">>>> >>,
    <<<<"A", "r", "c", "h", "i", "v", "e", "s">>, <<<<".", "z", "i", "p">>, <<".", "r", "a", "r">>, <<".", "7", "z">>, <<".", "t", "a", "r">>, <<".", "g", "z">>, <<".", "b", "z", "2">>>> >>,
    <<<<"C", "o", "d", "e">>, <<<<".", "p", "y">>, <<".", "j", "s">>, <<".", "j", "a", "v", "a">>, <<".", "c", "p", "p">>, <<".", "c">>, <<".", "h", "t", "m", "l">>, <<".", "c", "s", "s">>, <<".", "j", "s", "o", "n">>>> >>,
    <<<<"S", "p", "r", "e", "a", "d", "s", "h", "e", "e", "t", "s">>, <<<<".", "x", "l", "s", "x">>, <<".", "x", "l", "s">>, <<".", "c", "s", "v">>, <<".", "o", "d", "s">>>> >>,
    <<<<"O", "t", "h", "e", "r", "s">>, <<>> >> >>

\* desktop_cleaner.py: CATEGORIES, in dict order
CATEGORIES == <<
    <<<<"I", "m", "a", "g", "e", "s">>, <<<<".", "p", "n", "g">>, <<".", "j", "p", "g">>, <<".", "j", "p", "e", "g">>, <<".", "g", "i", "f">>, <<".", "b", "m", "p">>, <<".", "s", "v", "g">>, <<".", "w", "e", "b", "p">>>> >>,
    <<<<"D", "o", "c", "u", "m", "e", "n", "t", "s">>, <<<<".", "p", "d", "f">>, <<".", "d", "o", "c">>, <<".", "d", "o", "c", "x">>, <<".", "x", "l", "s">>, <<".", "x", "l", "s", "x">>, <<".", "p", "p", "t">>, <<".", "p", "p", "t", "x">>,
                      <<".", "t", "x", "t">>, <<".", "m", "d">>>> >>,
    <<<<"C", "o", "d", "e">>, <<<<".", "p", "y">>, <<".", "i", "p", "y", "n", "b">>, <<".", "j", "s">>, <<".", "t", "s">>, <<".", "j", "a", "v", "a">>, <<".", "g", "o">>, <<".", "c">>, <<".", "c", "p", "p">>,
                 <<".", "r", "b">>, <<".", "s", "h">>, <<".", "y", "a", "m", "l">>, <<".", "y", "m", "l">>, <<".", "j", "s", "o", "n">>, <<".", "t", "f">>>> >>,
    <<<<"A", "r", "c", "h", "i", "v", "e", "s">>, <<<<".", "z", "i", "p">>, <<".", "t", "a", "r">>, <<".", "g", "z">>, <<".", "t", "g", "z">>, <<".", "r", "a", "r">>, <<".", "7", "z">>>> >>,
    <<<<"M", "e", "d", "i", "a">>, <<<<".", "m", "p", "3">>, <<".", "w", "a", "v">>, <<".", "m", "4", "a">>, <<".", "m", "p", "4">>, <<".", "m", "k", "v">>, <<".", "a", "v", "i">>, <<".", "m", "o", "v">>>> >> >>

\* the loop both categorizers run: the first category, in table order, whose
\* list holds the extension; `fallback` when none does
FirstCategory(table, extension, fallback) ==
    LET hits == {i \in 1..Len(table) : InList(extension, table[i][2])}
    IN IF hits = {} THEN fallback
       ELSE table[CHOOSE i \in hits : \A j \in hits : i <= j][1]

\* FileCategorizer.__init__: self.mappings = custom_mappings or CATEGORY_MAPPINGS
\* (None and an empty dict are both falsy)
Mappings(custom_mappings) ==
    IF custom_mappings = <<>> THEN CATEGORY_MAPPINGS ELSE custom_mappings

\* FileCategorizer.categorize(file_path) without the .lower()
categorize_case_sensitive(name) == FirstCategory(mappings, Suffix(name), <<"O", "t", "h", "e", "r", "s">>)

\* FileCategorizer.categorize(file_path)
categorize(name) == FirstCategory(mappings, Lower(Suffix(name)), <<"O", "t", "h", "e", "r", "s">>)

\* classify_file(path)
classify_file(name) == FirstCategory(CATEGORIES, Lower(Suffix(name)), <<"O", "t", "h", "e", "r">>)

-----------------------------------------------------------------------------
(* Paths *)

\* the directory given to main.py / --path
Desktop == <<<<"T">>>>

\* a working directory that is not the target
Elsewhere == <<<<"W">>>>

\* UndoManager.__init__: the default history file name
HISTORY_NAME == <<".", "f", "i", "l", "e", "_", "o", "r", "g", "a", "n", "i", "z", "e", "r", "_", "h", "i", "s", "t", "o", "r", "y", ".", "j", "s", "o", "n">>

\* UndoManager.history_file: Path(".file_organizer_history.json") is relative,
\* every open(), exists() and rename() resolves it against the working directory
history_file == cwd \o <<HISTORY_NAME>>

\* Path.parent
Parent(p) == IF p = <<>> THEN <<>> ELSE SubSeq(p, 1, Len(p) - 1)

\* Path.name
Name(p) == IF p = <<>> THEN <<>> ELSE p[Len(p)]

\* str(path) of an absolute path: "/" before every component
RECURSIVE PathStr(_)
PathStr(p) == IF p = <<>> THEN <<>> ELSE <<"/">> \o Head(p) \o PathStr(Tail(p))

\* str.split(sep)
RECURSIVE Split(_, _)
Split(s, sep) ==
    LET i == Find(s, sep)
    IN IF i = 0 THEN <<s>>
       ELSE <<SubSeq(s, 1, i - 1)>> \o Split(SubSeq(s, i + 1, Len(s)), sep)

\* Path(string): the components between slashes, empty and "." components
\* dropped; a string that does not start with a slash is relative to `base`
ParsePath(s, base) ==
    LET parts == Split(s, "/")
        kept  == SelectSeq(parts, LAMBDA c : c # <<>> /\ c # <<".">>)
    IN IF StartsWith(s, <<"/">>) THEN kept ELSE base \o kept

-----------------------------------------------------------------------------
(* The filesystem *)

DirNode == [kind |-> "dir", id |-> "", data |-> <<>>]

\* a regular file: `id` tells files apart ("json" marks a well-formed history
\* document, whose parsed content is `data`)
FileNode(id, data) == [kind |-> "file", id |-> id, data |-> data]

\* Path.exists()
Exists(f, p) == p = <<>> \/ p \in DOMAIN f

\* Path.is_dir()
IsDir(f, p) == p = <<>> \/ (p \in DOMAIN f /\ f[p].kind = "dir")

\* Path.is_file()
IsFile(f, p) == p \in DOMAIN f /\ f[p].kind = "file"

Put(f, p, node) == [q \in DOMAIN f \cup {p} |-> IF q = p THEN node ELSE f[q]]

Remove(f, p) == [q \in DOMAIN f \ {p} |-> f[q]]

\* Path.iterdir(): the direct children
Children(f, d) == {p \in DOMAIN f : Len(p) = Len(d) + 1 /\ Parent(p) = d}

\* Path.mkdir(exist_ok=True) succeeds: the directory is there, or its parent is
\* and nothing has the name
MkdirOk(f, d) == IsDir(f, d) \/ (~Exists(f, d) /\ IsDir(f, Parent(d)))

MkdirDone(f, d) == IF IsDir(f, d) THEN f ELSE Put(f, d, DirNode)

\* Path.mkdir(parents=True, exist_ok=True) succeeds: no prefix of the path is a file
MkdirParentsOk(f, d) == \A n \in 1..Len(d) : ~IsFile(f, SubSeq(d, 1, n))

MkdirParentsDone(f, d) ==
    LET made == {SubSeq(d, 1, n) : n \in 1..Len(d)}
    IN [q \in DOMAIN f \cup made |-> IF q \in DOMAIN f THEN f[q] ELSE DirNode]

\* Path.rename(target) of a file succeeds: os.rename replaces an existing file
\* on POSIX and raises FileExistsError on Windows; a directory at the target, a
\* missing source or a missing target directory raise on both
RenameOk(f, src, dst) ==
    /\ IsFile(f, src)
    /\ IsDir(f, Parent(dst))
    /\ ~IsDir(f, dst)
    /\ (IsFile(f, dst) /\ dst # src) => platform = "posix"

RenameDone(f, src, dst) == Put(Remove(f, src), dst, f[src])

\* shutil.move(src, dst): the real destination is inside dst when dst is a directory
MoveTarget(f, src, dst) == IF IsDir(f, dst) THEN dst \o <<Name(src)>> ELSE dst

\* shutil.move succeeds: os.rename, and when that raises OSError for a file,
\* copy2 + unlink, which replaces an existing file on every platform
MoveOk(f, src, dst) ==
    /\ IsFile(f, src)
    /\ IF IsDir(f, dst) THEN ~Exists(f, MoveTarget(f, src, dst))
       ELSE IsDir(f, Parent(dst))

MoveDone(f, src, dst) == RenameDone(f, src, MoveTarget(f, src, dst))

\* the files a target directory may hold at the start
FileNames == {<<"a", ".", "t", "x", "t">>, <<"b", ".", "J", "P", "G">>}

\* a hidden file with a known extension
HiddenName == <<".", "h", ".", "p", "y">>

\* a subdirectory whose name has a known extension
SubdirName == <<"d", ".", "t", "x", "t">>

\* what a file of the target directory holds at the start: each its own
Content(n) ==
    IF n = <<"a", ".", "t", "x", "t">> THEN "a" ELSE IF n = <<"b", ".", "J", "P", "G">> THEN "b" ELSE "h"

\* every file the target directory started with is a direct child of it, under
\* its own name
AllHome(f) ==
    \A p \in DOMAIN f :
        IsFile(f, p) /\ f[p].id \in {"a", "b", "h"}
            => Parent(p) = Desktop /\ Content(Name(p)) = f[p].id

-----------------------------------------------------------------------------
(* The history file of .kiro/src/undo.py *)

\* _save_history: data = [[str(s), str(d)] for s, d in self.history]
SaveData(h) == [i \in 1..Len(h) |-> <<PathStr(h[i][1]), PathStr(h[i][2])>>]

\* _load_history: [(Path(s), Path(d)) for s, d in data]
LoadData(data, base) ==
    [i \in 1..Len(data) |-> <<ParsePath(data[i][1], base), ParsePath(data[i][2], base)>>]

\* _load_history: the history a new UndoManager starts with; a missing file
\* leaves it empty, so does anything json.load or the unpacking raises on
Loaded(f, hf, base) ==
    IF IsFile(f, hf) /\ f[hf].id = "json" THEN LoadData(f[hf].data, base) ELSE <<>>

\* _save_history when open(..., 'w') and json.dump succeed: the file is
\* created or truncated and holds the document
Saved(f, hf, h) == Put(f, hf, FileNode("json", SaveData(h)))

\* open(history_file, 'w') can succeed: the directory is there and the name is
\* not a directory
SaveOk(f, hf) == IsDir(f, Parent(hf)) /\ ~IsDir(f, hf)

-----------------------------------------------------------------------------
(* Ghost bookkeeping *)

\* the handler that finished with this step, what it returned ("raise" for an
\* exception) and the record an undo attempt was about
Done(op, ret, rec) == last' = [op |-> op, ret |-> ret, rec |-> rec]

Spend(what) == budget' = [budget EXCEPT ![what] = @ - 1]

\* a step inside a handler, which finishes nothing
Step == Done("step", "None", <<>>)

\* the execute / undo round trip being followed is over
Off == snap' = [snap EXCEPT !.phase = "off", !.quiet = FALSE]

-----------------------------------------------------------------------------
(* .kiro/src/undo.py: UndoManager *)

\* _save_history on history h: the write's failure is caught and logged, the
\* caller goes on either way
_save_history(f, h, fault) ==
    IF SaveOk(f, history_file) /\ ~fault THEN Saved(f, history_file, h) ELSE f

\* record_move that puts the new record first
record_move_first(h, f, source, destination, fault) ==
    LET h2 == << <<source, destination>> >> \o h
    IN [history |-> h2, fs |-> _save_history(f, h2, fault)]

\* record_move(source, destination): append, then save
record_move(h, f, source, destination, fault) ==
    LET h2 == Append(h, <<source, destination>>)
    IN [history |-> h2, fs |-> _save_history(f, h2, fault)]

\* the record undo_last pops
Popped(h) == h[Len(h)]

\* what undo_last leaves in self.history
AfterPop(h) == SubSeq(h, 1, Len(h) - 1)

\* undo_last() past the emptiness test: pop, then rename back and save, or
\* save alone when the destination is gone; a failing rename raises before
\* the save. renameFault / saveFault: the operating system refuses the rename /
\* the write
undo_popped(h, f, renameFault, saveFault) ==
    LET source      == Popped(h)[1]
        destination == Popped(h)[2]
        rest        == AfterPop(h)
    IN IF Exists(f, destination)
       THEN IF RenameOk(f, destination, source) /\ ~renameFault
            THEN [history |-> rest,
                  fs |-> _save_history(RenameDone(f, destination, source), rest, saveFault),
                  ret |-> "True", rec |-> Popped(h)]
            ELSE [history |-> rest, fs |-> f, ret |-> "raise", rec |-> Popped(h)]
       ELSE [history |-> rest, fs |-> _save_history(f, rest, saveFault),
             ret |-> "False", rec |-> Popped(h)]

\* undo_last() without its `if not self.history` test: list.pop() on an empty
\* list raises IndexError
undo_last_unguarded(h, f, renameFault, saveFault) ==
    IF h = <<>>
    THEN [history |-> h, fs |-> f, ret |-> "raise", rec |-> <<>>]
    ELSE undo_popped(h, f, renameFault, saveFault)

\* undo_last(): the history and filesystem it leaves and what it returns
undo_last(h, f, renameFault, saveFault) ==
    IF h = <<>>
    THEN [history |-> h, fs |-> f, ret |-> "False", rec |-> <<>>]
    ELSE undo_popped(h, f, renameFault, saveFault)

\* the faults a step may draw: none, or any while the fault budget lasts
Faults == IF budget.faults > 0 THEN BOOLEAN ELSE {FALSE}

\* FileCleaner(directory): constructs the UndoManager, which loads the history
KNew ==
    /\ ~alive /\ dpc = "none"
    /\ Exists(fs, Desktop)
    /\ alive' = TRUE
    /\ history' = Loaded(fs, history_file, cwd)
    /\ pc' = "ready"
    /\ Done("__init__", "None", <<>>)
    /\ UNCHANGED <<fs, platform, mappings, cwd, todo, cur, dry, logs, clock, dpc, dtodo, ddone,
                   dundo, out, snap, budget>>

\* the pairs a caller of the library records by hand (tests/test_undo.py records
\* a pair of relative paths): a destination that is not there, and a file of the
\* target recorded as having come from a directory that does not exist
ApiPairs ==
    { <<cwd \o <<<<"s", "o", "u", "r", "c", "e", ".", "t", "x", "t">>>>, cwd \o <<<<"d", "e", "s", "t", ".", "t", "x", "t">>>> >>,
      <<Desktop \o <<<<"g", "o", "n", "e">>, <<"a", ".", "t", "x", "t">>>>, Desktop \o <<<<"a", ".", "t", "x", "t">>>> >> }

\* UndoManager.record_move called by a user of the class
KRecordMove ==
    /\ alive /\ pc = "ready" /\ budget.ops > 0
    /\ \E pair \in ApiPairs, fault \in Faults :
          LET r == record_move(history, fs, pair[1], pair[2], fault)
          IN /\ history' = r.history
             /\ fs' = r.fs
             /\ budget' = [budget EXCEPT !.ops = @ - 1,
                                         !.faults = IF fault THEN @ - 1 ELSE @]
    /\ Done("record_move", "None", <<>>)
    /\ Off
    /\ UNCHANGED <<platform, mappings, cwd, alive, pc, todo, cur, dry, logs, clock, dpc, dtodo,
                   ddone, dundo, out>>

\* UndoManager.undo_last called by a user of the class
KUndoLast ==
    /\ alive /\ pc = "ready" /\ budget.ops > 0
    /\ \E renameFault \in Faults, saveFault \in Faults :
          LET r == undo_last(history, fs, renameFault, saveFault)
          IN /\ ~(renameFault /\ saveFault)
             /\ history' = r.history
             /\ fs' = r.fs
             /\ Done("undo_last", r.ret, r.rec)
             /\ budget' = [budget EXCEPT !.ops = @ - 1,
                              !.faults = IF renameFault \/ saveFault THEN @ - 1 ELSE @]
    /\ Off
    /\ UNCHANGED <<platform, mappings, cwd, alive, pc, todo, cur, dry, logs, clock, dpc, dtodo,
                   ddone, dundo, out>>

\* undo_all(): entering the loop
KUndoAll ==
    /\ alive /\ pc = "ready" /\ budget.ops > 0
    /\ pc' = "undoall"
    /\ Spend("ops")
    /\ snap' = IF snap.phase = "executed" THEN [snap EXCEPT !.phase = "undo"]
               ELSE [snap EXCEPT !.phase = "off"]
    /\ Step
    /\ UNCHANGED <<fs, platform, mappings, cwd, alive, history, todo, cur, dry, logs, clock, dpc,
                   dtodo, ddone, dundo, out>>

\* undo_all(): one turn of `while self.history: self.undo_last()`; an exception
\* of undo_last leaves the loop and undo_all
KUndoAllStep ==
    /\ alive /\ pc = "undoall"
    /\ IF history = <<>>
       THEN /\ pc' = "ready"
            /\ Done("undo_all", "None", <<>>)
            /\ snap' = IF snap.phase = "undo" THEN [snap EXCEPT !.phase = "done"] ELSE snap
            /\ UNCHANGED <<fs, history, budget>>
       ELSE \E renameFault \in Faults, saveFault \in Faults :
               LET r == undo_last(history, fs, renameFault, saveFault)
               IN /\ ~(renameFault /\ saveFault)
                  /\ history' = r.history
                  /\ fs' = r.fs
                  /\ budget' = [budget EXCEPT
                        !.faults = IF renameFault \/ saveFault THEN @ - 1 ELSE @]
                  /\ IF r.ret = "raise"
                     THEN pc' = "ready" /\ Done("undo_last", "raise", r.rec) /\ Off
                     ELSE /\ pc' = "undoall"
                          /\ Done("undo_last", r.ret, r.rec)
                          /\ IF renameFault \/ saveFault THEN Off ELSE UNCHANGED snap
    /\ UNCHANGED <<platform, mappings, cwd, alive, todo, cur, dry, logs, clock, dpc, dtodo, ddone,
                   dundo, out>>

-----------------------------------------------------------------------------
(* .kiro/src/cleaner.py: FileCleaner *)

\* organize: target_dir = self.directory / category
target_dir(p) == Desktop \o <<categorize(Name(p))>>

\* _move_file: destination = target_dir / file_path.name
destination(p) == target_dir(p) \o <<Name(p)>>

\* no planned move finds its destination taken, or a file where its folder goes
CollisionFree(f) ==
    \A p \in Children(f, Desktop) :
        IsFile(f, p) => ~Exists(f, destination(p)) /\ ~IsFile(f, target_dir(p))

\* iterdir() that lists whatever it is given, as if it were an empty directory
ListOk_anything(f, d) == TRUE

\* self.directory.iterdir() succeeds: the path is a directory (it raises
\* FileNotFoundError or NotADirectoryError otherwise)
ListOk(f, d) == IsDir(f, d)

\* main(): `if not target_dir.exists()`: log the error and return
KMainReturn ==
    /\ ~alive /\ dpc = "none" /\ budget.ops > 0
    /\ ~Exists(fs, Desktop)
    /\ Spend("ops")
    /\ Done("main", "None", <<>>)
    /\ UNCHANGED <<fs, platform, mappings, cwd, alive, history, pc, todo, cur, dry, logs,
                   clock, dpc, dtodo, ddone, dundo, out, snap>>

\* organize(dry_run): the directory is listed once, when the loop starts; on a
\* path that is not a directory iterdir() raises before the first turn
KOrganize ==
    /\ alive /\ pc = "ready" /\ budget.ops > 0
    /\ \E d \in BOOLEAN :
          /\ dry' = d
          /\ snap' = [phase |-> IF ~d /\ history = <<>>
                                   /\ ListOk(fs, Desktop)
                                   /\ Loaded(fs, history_file, cwd) = <<>>
                                   /\ CollisionFree(fs) /\ AllHome(fs)
                                THEN "exec" ELSE "off",
                      quiet |-> TRUE]
    /\ out' = {}
    /\ Spend("ops")
    /\ IF ListOk(fs, Desktop)
       THEN /\ todo' = Children(fs, Desktop)
            /\ pc' = "iter"
            /\ Step
       ELSE /\ Done("organize", "raise", <<>>)
            /\ UNCHANGED <<pc, todo>>
    /\ UNCHANGED <<fs, platform, mappings, cwd, alive, history, cur, logs, clock, dpc, dtodo,
                   ddone, dundo>>

\* organize: `if file_path.is_file()`
Eligible(f, p) == IsFile(f, p)

\* organize: one turn of `for file_path in self.directory.iterdir()` that finds
\* a file, in whatever order the directory is listed; the turns that find
\* something else do nothing and are not steps of their own
KIter ==
    /\ alive /\ pc = "iter"
    /\ \E p \in todo :
          /\ Eligible(fs, p)
          /\ todo' = todo \ {p}
          /\ IF dry
             THEN /\ out' = out \cup {<<"Would move", Name(p), categorize(Name(p))>>}
                  /\ UNCHANGED <<pc, cur>>
             ELSE /\ cur' = p
                  /\ pc' = "mkdir"
                  /\ UNCHANGED out
    /\ Step
    /\ UNCHANGED <<fs, platform, mappings, cwd, alive, history, dry, logs, clock, dpc, dtodo,
                   ddone, dundo, snap, budget>>

\* organize returns when no listed entry that is a file is left
KOrganizeReturn ==
    /\ alive /\ pc = "iter" /\ \A p \in todo : ~Eligible(fs, p)
    /\ pc' = "ready" /\ todo' = {}
    /\ Done("organize", "None", <<>>)
    /\ snap' = IF snap.phase = "exec" THEN [snap EXCEPT !.phase = "executed"] ELSE snap
    /\ UNCHANGED <<fs, platform, mappings, cwd, alive, history, cur, dry, logs, clock, dpc,
                   dtodo, ddone, dundo, out, budget>>

\* _move_file: target_dir.mkdir(exist_ok=True); FileExistsError when a file has
\* the folder's name
KMkdir ==
    /\ alive /\ pc = "mkdir"
    /\ IF MkdirOk(fs, target_dir(cur))
       THEN /\ fs' = MkdirDone(fs, target_dir(cur))
            /\ pc' = "record"
            /\ Step
            /\ UNCHANGED <<todo, cur, snap>>
       ELSE /\ pc' = "ready" /\ todo' = {} /\ cur' = <<>>
            /\ Done("organize", "raise", <<>>)
            /\ Off
            /\ UNCHANGED fs
    /\ UNCHANGED <<platform, mappings, cwd, alive, history, dry, logs, clock, dpc, dtodo, ddone,
                   dundo, out, budget>>

\* _move_file: self.undo_manager.record_move(file_path, destination)
KRecord ==
    /\ alive /\ pc = "record"
    /\ \E fault \in Faults :
          LET r == record_move(history, fs, cur, destination(cur), fault)
          IN /\ history' = r.history
             /\ fs' = r.fs
             /\ budget' = [budget EXCEPT !.faults = IF fault THEN @ - 1 ELSE @]
             /\ IF fault THEN Off ELSE UNCHANGED snap
    /\ pc' = "rename"
    /\ Done("record_move", "None", <<>>)
    /\ UNCHANGED <<platform, mappings, cwd, alive, todo, cur, dry, logs, clock, dpc, dtodo, ddone,
                   dundo, out>>

\* _move_file: file_path.rename(destination); an exception leaves organize
KRename ==
    /\ alive /\ pc = "rename"
    /\ \E fault \in Faults :
          /\ budget' = [budget EXCEPT !.faults = IF fault THEN @ - 1 ELSE @]
          /\ IF RenameOk(fs, cur, destination(cur)) /\ ~fault
             THEN /\ fs' = RenameDone(fs, cur, destination(cur))
                  /\ pc' = "iter"
                  /\ Step
                  /\ UNCHANGED <<todo, snap>>
             ELSE /\ pc' = "ready" /\ todo' = {}
                  /\ Done("organize", "raise", <<>>)
                  /\ Off
                  /\ UNCHANGED fs
    /\ cur' = <<>>
    /\ UNCHANGED <<platform, mappings, cwd, alive, history, dry, logs, clock, dpc, dtodo, ddone,
                   dundo, out>>

\* the process ends: main returns, an exception reaches the top, or (an
\* injected fault) the process is killed between two filesystem calls
KTerminate ==
    /\ alive
    /\ pc # "ready" => budget.faults > 0
    /\ budget' = [budget EXCEPT !.faults = IF pc # "ready" THEN @ - 1 ELSE @]
    /\ alive' = FALSE
    /\ history' = <<>>
    /\ pc' = "none" /\ todo' = {} /\ cur' = <<>>
    /\ dry' = FALSE /\ out' = {}
    /\ IF pc = "ready" THEN UNCHANGED snap ELSE Off
    /\ Done("exit", "None", <<>>)
    /\ UNCHANGED <<fs, platform, mappings, cwd, logs, clock, dpc, dtodo, ddone, dundo>>

-----------------------------------------------------------------------------
(* The user, outside the program *)

\* the places where the user may put a new file: the original place of a.txt,
\* and the place organize moves it to
ExtPaths == {Desktop \o <<<<"a", ".", "t", "x", "t">>>>}

\* no run of either program is under way
Idle == pc \in {"none", "ready"} /\ dpc = "none"

\* a file is deleted behind the program's back, between two runs
ExtDelete ==
    /\ budget.ext > 0 /\ Idle
    /\ \E p \in DOMAIN fs :
          /\ IsFile(fs, p)
          /\ fs' = Remove(fs, p)
    /\ Spend("ext")
    /\ Done("external", "None", <<>>)
    /\ Off
    /\ UNCHANGED <<platform, mappings, cwd, alive, history, pc, todo, cur, dry, logs, clock, dpc,
                   dtodo, ddone, dundo, out>>

\* a file is created behind the program's back, between two runs
ExtCreate ==
    /\ budget.ext > 0 /\ Idle
    /\ \E p \in ExtPaths :
          /\ ~Exists(fs, p) /\ IsDir(fs, Parent(p))
          /\ fs' = Put(fs, p, FileNode("new", <<>>))
    /\ Spend("ext")
    /\ Done("external", "None", <<>>)
    /\ Off
    /\ UNCHANGED <<platform, mappings, cwd, alive, history, pc, todo, cur, dry, logs, clock, dpc,
                   dtodo, ddone, dundo, out>>

-----------------------------------------------------------------------------
(* desktop_cleaner.py *)

\* iter_desktop_files: the direct children that are neither directories nor
\* hidden
iter_desktop_files(f) ==
    {p \in Children(f, Desktop) : ~IsDir(f, p) /\ ~StartsWith(Name(p), <<".">>)}

\* plan_moves: target_dir = desktop / category
plan_target(p) == Desktop \o <<classify_file(Name(p))>>

\* write_log / clean_desktop: dest = target_dir / src.name
plan_dest(p) == plan_target(p) \o <<Name(p)>>

\* write_log: the lines of the log of `moves` (sources in plan order)
LogLines(moves) ==
    <<<<"D", "E", "S", "K", "T", "O", "P", "=">> \o PathStr(Desktop)>>
    \o [i \in 1..Len(moves) |-> PathStr(moves[i]) \o <<"|">> \o PathStr(plan_dest(moves[i]))]

\* parse_log: the lines that are neither blank nor the DESKTOP= header, stripped
MoveLines(lines) ==
    SelectSeq([i \in 1..Len(lines) |-> Strip(lines[i])],
              LAMBDA l : l # <<>> /\ ~StartsWith(l, <<"D", "E", "S", "K", "T", "O", "P", "=">>))

\* parse_log: src_str, dest_str = line.split("|", 1) raises ValueError on a line
\* without the separator
ParseOk(lines) == \A i \in 1..Len(MoveLines(lines)) : Find(MoveLines(lines)[i], "|") > 0

\* parse_log: the (src, dest) pairs, each line cut at its first separator
parse_log(lines) ==
    LET ls == MoveLines(lines)
    IN [i \in 1..Len(ls) |->
          LET k == Find(ls[i], "|")
          IN <<ParsePath(SubSeq(ls[i], 1, k - 1), cwd),
               ParsePath(SubSeq(ls[i], k + 1, Len(ls[i])), cwd)>>]

\* undo_last_run taking logs[0], the oldest log
first_log == CHOOSE t \in DOMAIN logs : \A u \in DOMAIN logs : t <= u

\* undo_last_run: logs = sorted(log_dir.glob("clean_*.log")); last_log = logs[-1]
last_log == CHOOSE t \in DOMAIN logs : \A u \in DOMAIN logs : u <= t

\* find_desktop(custom_path): SystemExit when the path does not exist or is
\* not a directory, before clean_desktop is called
DFindDesktopExit ==
    /\ dpc = "none" /\ ~alive /\ budget.ops > 0
    /\ ~IsDir(fs, Desktop)
    /\ Spend("ops")
    /\ Done("find_desktop", "raise", <<>>)
    /\ UNCHANGED <<fs, platform, mappings, cwd, alive, history, pc, todo, cur, dry, logs,
                   clock, dpc, dtodo, ddone, dundo, out, snap>>

\* clean_desktop without its `if dry_run` branch
clean_mode_always_moves(f, d) ==
    IF iter_desktop_files(f) = {} THEN "nothing" ELSE "move"

\* clean_desktop: what it does with the plan: nothing when the plan is empty,
\* print it when dry_run, move otherwise
clean_mode(f, d) ==
    IF iter_desktop_files(f) = {} THEN "nothing"
    ELSE IF d THEN "preview" ELSE "move"

\* clean_desktop(desktop, dry_run): plan, then either print the plan or start
\* moving
DClean ==
    /\ dpc = "none" /\ ~alive /\ budget.ops > 0
    /\ IsDir(fs, Desktop)
    /\ \E d \in BOOLEAN :
          /\ dry' = d
          /\ CASE clean_mode(fs, d) = "nothing" ->
                   /\ out' = {}
                   /\ Done("clean_desktop", "0", <<>>)
                   /\ UNCHANGED <<dpc, dtodo, ddone>>
               [] clean_mode(fs, d) = "preview" ->
                   /\ out' = {<<"Would move", Name(p), classify_file(Name(p))>> :
                                 p \in iter_desktop_files(fs)}
                   /\ Done("clean_desktop", "n", <<>>)
                   /\ UNCHANGED <<dpc, dtodo, ddone>>
               [] clean_mode(fs, d) = "move" ->
                   /\ out' = {}
                   /\ dpc' = "moving"
                   /\ dtodo' = iter_desktop_files(fs)
                   /\ ddone' = <<>>
                   /\ Step
          /\ snap' = [phase |-> IF ~d /\ DOMAIN logs = {} /\ AllHome(fs)
                                   /\ \A p \in iter_desktop_files(fs) :
                                         ~Exists(fs, plan_dest(p)) /\ ~IsFile(fs, plan_target(p))
                                THEN "exec" ELSE "off",
                      quiet |-> TRUE]
    /\ Spend("ops")
    /\ UNCHANGED <<fs, platform, mappings, cwd, alive, history, pc, todo, cur, logs, clock, dundo>>

\* clean_desktop: one turn of the move loop: mkdir(exist_ok=True), then
\* shutil.move; an exception leaves clean_desktop before write_log
DMove ==
    /\ dpc = "moving" /\ dtodo # {}
    /\ \E src \in dtodo, fault \in Faults :
          /\ budget' = [budget EXCEPT !.faults = IF fault THEN @ - 1 ELSE @]
          /\ IF MkdirOk(fs, plan_target(src))
                /\ MoveOk(MkdirDone(fs, plan_target(src)), src, plan_dest(src))
                /\ ~fault
             THEN /\ fs' = MoveDone(MkdirDone(fs, plan_target(src)), src, plan_dest(src))
                  /\ dtodo' = dtodo \ {src}
                  /\ ddone' = Append(ddone, src)
                  /\ Step
                  /\ UNCHANGED <<dpc, snap>>
             ELSE /\ fs' = IF MkdirOk(fs, plan_target(src))
                           THEN MkdirDone(fs, plan_target(src)) ELSE fs
                  /\ dpc' = "none" /\ dtodo' = {} /\ ddone' = <<>>
                  /\ Done("clean_desktop", "raise", <<>>)
                  /\ Off
    /\ UNCHANGED <<platform, mappings, cwd, alive, history, pc, todo, cur, dry, logs, clock, dundo,
                   out>>

\* clean_desktop: write_log(desktop, moves) after the last move; a second run
\* within the same second opens the same clean_<ts>.log with "w"
DWriteLog ==
    /\ dpc = "moving" /\ dtodo = {}
    /\ logs' = [t \in DOMAIN logs \cup {clock} |->
                   IF t = clock THEN LogLines(ddone) ELSE logs[t]]
    /\ dpc' = "none" /\ ddone' = <<>>
    /\ Done("clean_desktop", "n", <<>>)
    /\ snap' = IF snap.phase = "exec" THEN [snap EXCEPT !.phase = "executed"] ELSE snap
    /\ UNCHANGED <<fs, platform, mappings, cwd, alive, history, pc, todo, cur, dry, clock, dtodo,
                   dundo, out, budget>>

\* undo_last_run: pick the last log and parse it
DUndo ==
    /\ dpc = "none" /\ ~alive /\ budget.ops > 0
    /\ Spend("ops")
    /\ IF DOMAIN logs = {}
       THEN Done("undo_last_run", "None", <<>>) /\ UNCHANGED <<dpc, dundo>>
       ELSE IF ~ParseOk(logs[last_log])
       THEN Done("undo_last_run", "raise", <<>>) /\ UNCHANGED <<dpc, dundo>>
       ELSE IF parse_log(logs[last_log]) = <<>>
       THEN Done("undo_last_run", "None", <<>>) /\ UNCHANGED <<dpc, dundo>>
       ELSE dpc' = "undo" /\ dundo' = parse_log(logs[last_log]) /\ Step
    /\ snap' = IF snap.phase = "executed" THEN [snap EXCEPT !.phase = "undo"]
               ELSE [snap EXCEPT !.phase = "off"]
    /\ UNCHANGED <<fs, platform, mappings, cwd, alive, history, pc, todo, cur, dry, logs, clock,
                   dtodo, ddone, out>>

\* undo_last_run: one turn of `for src, dest in moves`
DUndoStep ==
    /\ dpc = "undo" /\ dundo # <<>>
    /\ LET src  == Head(dundo)[1]
           dest == Head(dundo)[2]
       IN \E fault \in Faults :
          /\ budget' = [budget EXCEPT !.faults = IF fault THEN @ - 1 ELSE @]
          /\ IF ~Exists(fs, dest)
             THEN /\ dundo' = Tail(dundo)
                  /\ Done("undo_move", "False", Head(dundo))
                  /\ UNCHANGED <<fs, dpc, snap>>
             ELSE IF MkdirParentsOk(fs, Parent(src))
                     /\ MoveOk(MkdirParentsDone(fs, Parent(src)), dest, src)
                     /\ ~fault
             THEN /\ fs' = MoveDone(MkdirParentsDone(fs, Parent(src)), dest, src)
                  /\ dundo' = Tail(dundo)
                  /\ Done("undo_move", "True", Head(dundo))
                  /\ UNCHANGED <<dpc, snap>>
             ELSE /\ dpc' = "none" /\ dundo' = <<>>
                  /\ Done("undo_last_run", "raise", Head(dundo))
                  /\ Off
                  /\ UNCHANGED fs
    /\ UNCHANGED <<platform, mappings, cwd, alive, history, pc, todo, cur, dry, logs, clock, dtodo,
                   ddone, out>>

\* undo_last_run returns after the last move of the log
DUndoReturn ==
    /\ dpc = "undo" /\ dundo = <<>>
    /\ dpc' = "none"
    /\ Done("undo_last_run", "None", <<>>)
    /\ snap' = IF snap.phase = "undo" THEN [snap EXCEPT !.phase = "done"] ELSE snap
    /\ UNCHANGED <<fs, platform, mappings, cwd, alive, history, pc, todo, cur, dry, logs, clock,
                   dtodo, ddone, dundo, out, budget>>

\* the process is killed between two filesystem calls (an injected fault)
DKill ==
    /\ dpc # "none" /\ budget.faults > 0
    /\ Spend("faults")
    /\ dpc' = "none" /\ dtodo' = {} /\ ddone' = <<>> /\ dundo' = <<>>
    /\ Done("exit", "None", <<>>)
    /\ Off
    /\ UNCHANGED <<fs, platform, mappings, cwd, alive, history, pc, todo, cur, dry, logs, clock,
                   out>>

\* a second passes
Tick ==
    /\ clock < MaxClock
    /\ clock' = clock + 1
    /\ Step
    /\ UNCHANGED <<fs, platform, mappings, cwd, alive, history, pc, todo, cur, dry, logs, dpc,
                   dtodo, ddone, dundo, out, snap, budget>>

-----------------------------------------------------------------------------
(* Initial states and specifications *)

\* the filesystem with the given files in the target directory; the
\* subdirectory is always there
StartFs(names) ==
    LET paths == {Desktop, Elsewhere, Desktop \o <<SubdirName>>}
                    \cup {Desktop \o <<n>> : n \in names}
    IN [p \in paths |->
          IF p \in {Desktop, Elsewhere, Desktop \o <<SubdirName>>} THEN DirNode
          ELSE FileNode(Content(Name(p)), <<>>)]

\* what the history file can be when the program is first run: missing, an
\* empty JSON list, or not JSON
HistStart(f, hf) ==
    {f, Put(f, hf, FileNode("json", <<>>)), Put(f, hf, FileNode("garbage", <<>>))}

\* what the log directory can hold when the program is first run: nothing, or
\* a log whose second line lost its separator
LogStart ==
    {<<>>, [t \in {0} |-> <<<<"D", "E", "S", "K", "T", "O", "P", "=", "/", "T">>, <<"/", "T", "/", "a", ".", "t", "x", "t">>>>]}

InitCommon(ops) ==
    /\ alive = FALSE /\ history = <<>> /\ pc = "none" /\ todo = {} /\ cur = <<>>
    /\ dry = FALSE /\ clock = 0
    /\ dpc = "none" /\ dtodo = {} /\ ddone = <<>> /\ dundo = <<>>
    /\ out = {}
    /\ last = [op |-> "start", ret |-> "None", rec |-> <<>>]
    /\ budget = [ops |-> ops, ext |-> MaxExt, faults |-> MaxFaults]

\* .kiro: any platform, mappings, run from the target directory or from elsewhere
InitKiro ==
    /\ InitCommon(MaxOps)
    /\ mappings = Mappings(<<>>)
    /\ logs = <<>>
    /\ platform \in {"posix", "nt"}
    /\ cwd \in {Desktop, Elsewhere}
    /\ \E names \in SUBSET (FileNames \cup {HiddenName}) :
          /\ Cardinality(names) <= MaxFiles
          /\ fs \in HistStart(StartFs(names), cwd \o <<HISTORY_NAME>>)
    /\ snap = [phase |-> "off", quiet |-> TRUE]

\* desktop_cleaner.py: the log directory is empty; shutil.move does the same on
\* every platform
InitDC ==
    /\ InitCommon(MaxOps + 1)
    /\ mappings = Mappings(<<>>)
    /\ logs \in LogStart
    /\ platform = "posix"
    /\ cwd = Elsewhere
    /\ \E names \in SUBSET (FileNames \cup {HiddenName}) :
          /\ Cardinality(names) <= MaxFiles + 1
          /\ fs = StartFs(names)
    /\ snap = [phase |-> "off", quiet |-> TRUE]

NextKiro ==
    \/ KNew \/ KRecordMove \/ KUndoLast \/ KUndoAll \/ KUndoAllStep
    \/ KOrganize \/ KIter \/ KOrganizeReturn \/ KMkdir \/ KRecord \/ KRename
    \/ KTerminate \/ ExtDelete \/ ExtCreate

NextDC ==
    \/ DClean \/ DMove \/ DWriteLog \/ DUndo \/ DUndoStep \/ DUndoReturn \/ DKill
    \/ Tick \/ ExtDelete \/ ExtCreate

\* the .kiro organizer
SpecKiro == InitKiro /\ [][NextKiro]_vars

\* desktop_cleaner.py
SpecDC == InitDC /\ [][NextDC]_vars

\* file names that strain the log format and the categorizers: the log's
\* separator inside a name, a trailing blank, an upper- and a lower-case
\* spelling of one extension, no extension, an unknown extension, two suffixes
OddNames == {<<"c", "|", "d">>, <<"e", ".", "t", "x", "t", " ">>, <<"F", ".", "P", "N", "G">>, <<"f", ".", "p", "n", "g">>, <<"g">>, <<"x", ".", "z", "z">>, <<"b", ".", "c", ".", "J", "S", "O", "N">>}

\* the custom_mappings a caller may pass to FileCategorizer: none, or a table
\* in which two categories list the same extension
CustomMappings ==
    {<<>>, << <<<<"A">>, <<<<".", "p", "n", "g">>, <<".", "z", "z">>>> >>, <<<<"B">>, <<<<".", "p", "n", "g">>>> >> >>}

\* both programs on a directory of such names, left alone by the user
InitNames ==
    /\ InitCommon(MaxOps)
    /\ mappings \in {Mappings(c) : c \in CustomMappings}
    /\ logs = <<>>
    /\ platform = "posix"
    /\ cwd = Elsewhere
    /\ \E names \in SUBSET OddNames :
          /\ Cardinality(names) <= MaxFiles
          /\ fs = StartFs(names)
    /\ snap = [phase |-> "off", quiet |-> TRUE]

NextNames ==
    \/ KNew \/ KOrganize \/ KIter \/ KOrganizeReturn \/ KMkdir \/ KRecord \/ KRename
    \/ KTerminate
    \/ DClean \/ DMove \/ DWriteLog \/ DUndo \/ DUndoStep \/ DUndoReturn

SpecNames == InitNames /\ [][NextNames]_vars

\* the target path names nothing, or names a file
InvalidTargets ==
    {[p \in {Elsewhere} |-> DirNode],
     [p \in {Elsewhere, Desktop} |-> IF p = Desktop THEN FileNode("t", <<>>) ELSE DirNode]}

\* desktop_cleaner.py with room for two cleanups and two undos, the log
\* directory empty at the start
InitTwoRuns ==
    /\ InitCommon(MaxOps + 2)
    /\ mappings = Mappings(<<>>)
    /\ logs = <<>>
    /\ platform = "posix"
    /\ cwd = Elsewhere
    /\ \E names \in SUBSET FileNames :
          /\ Cardinality(names) <= MaxFiles
          /\ fs = StartFs(names)
    /\ snap = [phase |-> "off", quiet |-> TRUE]

SpecTwoRuns == InitTwoRuns /\ [][NextDC]_vars

\* both programs given a target that is not a directory
InitInvalid ==
    /\ InitCommon(MaxOps)
    /\ mappings = Mappings(<<>>)
    /\ logs = <<>>
    /\ platform \in {"posix", "nt"}
    /\ cwd = Elsewhere
    /\ \E f \in InvalidTargets : fs \in HistStart(f, cwd \o <<HISTORY_NAME>>)
    /\ snap = [phase |-> "off", quiet |-> TRUE]

NextInvalid ==
    \/ KMainReturn \/ KNew \/ KOrganize \/ KRecordMove \/ KUndoLast \/ KUndoAll
    \/ KUndoAllStep \/ KTerminate \/ DFindDesktopExit \/ DUndo \/ Tick

SpecInvalid == InitInvalid /\ [][NextInvalid]_vars

\* both programs, used on the same directory, no log of an earlier session left
Init == InitKiro \/ (InitDC /\ logs = <<>>)

Next == NextKiro \/ NextDC

Spec == Init /\ [][Next]_vars

-----------------------------------------------------------------------------
(* Notions the properties share *)

\* the ledger a new process would read from the history file
PersistedIn(f) == Loaded(f, history_file, cwd)

Persisted == PersistedIn(fs)

\* the moves of the log undo_last_run would pick
LoggedIn(l) ==
    IF DOMAIN l = {} THEN <<>>
    ELSE parse_log(l[CHOOSE t \in DOMAIN l : \A u \in DOMAIN l : u <= t])

LoggedMoves == LoggedIn(logs)

\* the records some persisted ledger holds: the history file, any log
PersistedRecords ==
    {Persisted[i] : i \in 1..Len(Persisted)}
    \cup UNION {{parse_log(logs[t])[i] : i \in 1..Len(parse_log(logs[t]))} : t \in DOMAIN logs}

\* the files of the target directory that sit in a folder of the target
\* directory, with the place they came from: <<source, destination>>
MovedFiles ==
    {<<Desktop \o <<Name(p)>>, p>> :
        p \in {q \in DOMAIN fs : /\ IsFile(fs, q) /\ Len(q) = 3
                                 /\ Parent(Parent(q)) = Desktop
                                 /\ fs[q].id \in {"a", "b", "h"}
                                 /\ Content(Name(q)) = fs[q].id}}

\* this step drew no injected fault
NoFault == budget'.faults = budget.faults

-----------------------------------------------------------------------------
(* C1 *)

\* C1 (as claimed): after execute on an empty ledger and a collision-free
\* directory, then undoAll, with nothing else happening in between, every file
\* is back at its original path and the ledger is empty, in memory and on disk.
C1_RoundTrip ==
    snap.phase = "done" =>
        /\ AllHome(fs)
        /\ history = <<>> /\ Persisted = <<>> /\ LoggedMoves = <<>>

-----------------------------------------------------------------------------
(* C2 *)

\* C2 (as claimed): in every reachable state, every file that has been moved
\* into a category folder has a persisted ledger record of that move.
C2_NoUnrecordedMove == MovedFiles \subseteq PersistedRecords

-----------------------------------------------------------------------------
(* C3 *)

\* C3 (as claimed): whenever record_move or undo_last has finished, by
\* returning or by raising, the persisted ledger equals the in-memory ledger.
C3_PersistedEqualsMemory ==
    last.op \in {"record_move", "undo_last"} => Persisted = history

-----------------------------------------------------------------------------
(* C4 *)

\* C4 (as claimed): undo_last on a ledger whose last record's destination
\* exists returns True, removes exactly that record, leaves the file at the
\* source and nothing at the destination, and persists the shortened ledger
\* (stated for the steps that draw no injected fault).
C4_UndoOne ==
    [][ ( /\ last'.op = "undo_last" /\ history # <<>>
          /\ Exists(fs, Popped(history)[2]) /\ NoFault )
        => ( /\ last'.ret = "True"
             /\ history' = AfterPop(history)
             /\ PersistedIn(fs') = history'
             /\ IsFile(fs', Popped(history)[1])
             /\ fs'[Popped(history)[1]].id = fs[Popped(history)[2]].id
             /\ Popped(history)[1] # Popped(history)[2]
                   => ~Exists(fs', Popped(history)[2]) ) ]_vars

-----------------------------------------------------------------------------
(* C5 *)

\* C5 (as claimed): an undo attempt that finds the record's destination missing
\* reports restored = false, raises nothing, moves no file, and the record is
\* gone from the persisted ledger afterwards (stated for the steps that draw no
\* injected fault).
C5_StaleUndo ==
    [][ ( /\ last'.op \in {"undo_last", "undo_move", "undo_last_run"}
          /\ last'.rec # <<>>
          /\ ~Exists(fs, last'.rec[2]) /\ NoFault )
        => ( /\ last'.ret = "False"
             /\ \A p \in (DOMAIN fs \cup DOMAIN fs') \ {history_file} :
                   p \in DOMAIN fs /\ p \in DOMAIN fs' /\ fs'[p] = fs[p]
             /\ alive => history' = AfterPop(history) /\ PersistedIn(fs') = history'
             /\ ~alive => \A i \in 1..Len(LoggedIn(logs')) :
                             LoggedIn(logs')[i] # last'.rec ) ]_vars

-----------------------------------------------------------------------------
(* C6 *)

\* C6 (as claimed): when undo_all / undo_last_run is over, by returning or by
\* raising, the ledger is empty, in memory and on disk.
C6_UndoAllEmpties ==
    [][ ( \/ pc = "undoall" /\ pc' = "ready"
          \/ dpc = "undo" /\ dpc' = "none" /\ last'.op = "undo_last_run" )
        => history' = <<>> /\ PersistedIn(fs') = <<>> /\ LoggedIn(logs') = <<>> ]_vars

-----------------------------------------------------------------------------
(* C7 *)

\* C7: undo_last on an empty ledger returns False, raises nothing and changes
\* neither the filesystem nor the ledger; and the ledger a new UndoManager
\* starts with is empty only when the history file is missing, is not a JSON
\* document, or holds an empty list.
C7_UndoEmptyNoOp ==
    [][ /\ ( last'.op = "undo_last" /\ history = <<>> )
            => last'.ret = "False" /\ fs' = fs /\ history' = <<>>
        /\ ( last'.op = "__init__" /\ history' = <<>> )
            => \/ ~IsFile(fs, history_file)
               \/ fs[history_file].id # "json"
               \/ fs[history_file].data = <<>> ]_vars

\* undo_last has been called on an empty ledger
C7_Witness ==
    /\ alive /\ last.op = "undo_last" /\ last.rec = <<>> /\ last.ret = "False"
    /\ history = <<>>

-----------------------------------------------------------------------------
(* C8 *)

\* C8 (as claimed): every undo attempt is for the most recently recorded of
\* the records still to be undone.
C8_MostRecentFirst ==
    [][ last'.rec # <<>>
        => /\ pc \in {"ready", "undoall"} /\ alive => last'.rec = history[Len(history)]
           /\ dpc = "undo" => last'.rec = dundo[Len(dundo)] ]_vars

-----------------------------------------------------------------------------
(* C9 *)

\* a step of organize(dry_run=True) or of clean_desktop(dry_run=True): the
\* call itself, or any later step of the run it started
DryRunStep ==
    \/ /\ alive /\ alive' /\ dpc = "none" /\ dpc' = "none"
       /\ \/ pc = "ready" /\ pc' = "iter" /\ dry'
          \/ pc \in {"iter", "mkdir", "record", "rename"} /\ dry
    \/ /\ ~alive /\ ~alive'
       /\ \/ dpc = "none" /\ dpc' \in {"none", "moving"} /\ dry'
             /\ budget'.ops < budget.ops
          \/ dpc = "moving" /\ dry /\ last'.op # "exit"

\* C9: no step of a dry run changes the filesystem, the logs or the ledger,
\* and the moves a dry run has reported when it returns are exactly those of
\* the files the directory then holds, so the same for the same directory.
C9_DryRunChangesNothing ==
    [][ /\ DryRunStep => fs' = fs /\ logs' = logs /\ history' = history
        /\ ( last'.op = "organize" /\ dry /\ DryRunStep )
            => out' = {<<"Would move", Name(p), categorize(Name(p))>> :
                         p \in {q \in Children(fs', Desktop) : IsFile(fs', q)}}
        /\ ( last'.op = "clean_desktop" /\ dry' /\ DryRunStep )
            => out' = {<<"Would move", Name(p), classify_file(Name(p))>> :
                         p \in {q \in Children(fs', Desktop) :
                                  IsFile(fs', q) /\ Head(Name(q)) # "."}} ]_vars

\* a dry run has returned after reporting at least one move
C9_Witness ==
    /\ dry /\ out # {} /\ last.op \in {"organize", "clean_desktop"}
    /\ pc \in {"none", "ready"} /\ dpc = "none"

-----------------------------------------------------------------------------
(* C10 *)

\* the sources of every record in memory or persisted
RecordedSources ==
    {r[1] : r \in PersistedRecords \cup {history[i] : i \in 1..Len(history)}}

\* C10 (as claimed): no hidden entry and no subdirectory is ever planned,
\* moved or recorded; the hidden file and the subdirectory stay where they are.
C10_HiddenAndDirsExcluded ==
    /\ \A r \in out : ~StartsWith(r[2], <<".">>) /\ r[2] # SubdirName
    /\ \A p \in RecordedSources :
          Parent(p) = Desktop => ~StartsWith(Name(p), <<".">>) /\ Name(p) # SubdirName
    /\ \A p \in DOMAIN fs : IsFile(fs, p) /\ fs[p].id = "h" => Parent(p) = Desktop
    /\ IsDir(fs, Desktop \o <<SubdirName>>)

-----------------------------------------------------------------------------
(* C11 *)

\* C11 (as claimed): while a move whose destination path already holds a file
\* is pending, no step changes that destination file or takes the source file
\* away: the colliding move is skipped.
C11_CollisionDoesNotOverwrite ==
    [][ /\ ( alive /\ pc = "rename" /\ IsFile(fs, destination(cur)) )
            => /\ IsFile(fs', destination(cur))
               /\ fs'[destination(cur)] = fs[destination(cur)]
               /\ IsFile(fs', cur) /\ fs'[cur] = fs[cur]
        /\ dpc = "moving"
            => \A src \in dtodo :
                  IsFile(fs, plan_dest(src))
                  => /\ IsFile(fs', plan_dest(src))
                     /\ fs'[plan_dest(src)] = fs[plan_dest(src)]
                     /\ IsFile(fs', src) /\ fs'[src] = fs[src] ]_vars

-----------------------------------------------------------------------------
(* C12 *)

\* the files an execute run has left in the target directory although nothing
\* occupies their destination (the ledger file organize creates while it runs
\* was not in its listing)
LeftBehind ==
    IF last.op = "organize"
    THEN {p \in Children(fs, Desktop) :
            IsFile(fs, p) /\ p # history_file /\ ~Exists(fs, destination(p))}
    ELSE {p \in iter_desktop_files(fs) : ~Exists(fs, plan_dest(p))}

\* C12 (as claimed): an execute run never ends by an exception at a failed
\* entry, and when it is over the only files left behind with a free
\* destination are those whose move drew a failure.
C12_PartialFailureIsolation ==
    ( last.op \in {"organize", "clean_desktop"} /\ ~dry /\ Idle )
    => /\ last.ret # "raise"
       /\ Cardinality(LeftBehind) <= MaxFaults - budget.faults

-----------------------------------------------------------------------------
(* C13 *)

\* C13 (as claimed): constructing the UndoManager never raises and leaves the
\* ledger empty when the history file is missing or is not a JSON list of
\* pairs; undo_last_run never raises while reading its log.
C13_LoadNeverRaises ==
    /\ last.op = "__init__"
          => /\ last.ret # "raise"
             /\ ( ~IsFile(fs, history_file) \/ fs[history_file].id # "json" )
                   => history = <<>>
    /\ ~( last.op = "undo_last_run" /\ last.ret = "raise" /\ last.rec = <<>> )

-----------------------------------------------------------------------------
(* C14 *)

\* C14 (as claimed): what is persisted loads back as the same pairs in the
\* same order: the log write_log has just written parses into the moves of
\* the plan, and the history file record_move has just written loads into
\* the history in memory.
C14_LedgerRoundTrip ==
    [][ /\ ( dpc = "moving" /\ dpc' = "none" /\ last'.op = "clean_desktop"
             /\ last'.ret = "n" )
            => /\ ParseOk(logs'[clock])
               /\ parse_log(logs'[clock])
                     = [i \in 1..Len(ddone) |-> <<ddone[i], plan_dest(ddone[i])>>]
        /\ ( last'.op = "record_move" /\ NoFault )
            => PersistedIn(fs') = history' ]_vars

-----------------------------------------------------------------------------
(* C15 *)

\* `category` is what is required of `name`: the first category of `table`
\* whose extensions hold the lower-cased suffix, `fallback` when none does
Owning(table, fallback, name, category) ==
    LET e == Lower(Suffix(name))
    IN \/ \E i \in 1..Len(table) :
             /\ InList(e, table[i][2]) /\ category = table[i][1]
             /\ \A j \in 1..(i - 1) : ~InList(e, table[j][2])
       \/ /\ \A i \in 1..Len(table) : ~InList(e, table[i][2])
          /\ category = fallback

\* C15: every category a dry run of either program reports for a file is the
\* first category of its table that holds the file's lower-cased extension,
\* or the fallback; two names that differ only in case get the same category.
C15_CategorizeTotal ==
    [][ /\ ( alive /\ pc = "iter" /\ dry )
            => \A r \in out' \ out : Owning(mappings, <<"O", "t", "h", "e", "r", "s">>, r[2], r[3])
        /\ ( last'.op = "clean_desktop" /\ dry' )
            => \A r \in out' : Owning(CATEGORIES, <<"O", "t", "h", "e", "r">>, r[2], r[3])
        /\ \A r1 \in out', r2 \in out' :
              Lower(r1[2]) = Lower(r2[2]) => r1[3] = r2[3] ]_vars

\* a dry run of organize with a custom table has put an upper-case .PNG into
\* the first of the two categories that list .png, and a name without a known
\* extension into the fallback
C15_Witness ==
    /\ alive /\ dry
    /\ \E r \in out : r[2] = <<"F", ".", "P", "N", "G">> /\ r[3] = <<"A">>
    /\ \E r \in out : r[3] = <<"O", "t", "h", "e", "r", "s">>

-----------------------------------------------------------------------------
(* C16 *)

\* a step of main / organize / find_desktop, as opposed to a step of undo or
\* of the library's record_move
ExecuteAttempt ==
    \/ last'.op \in {"main", "organize", "find_desktop", "__init__", "clean_desktop"}
    \/ pc' \in {"iter", "mkdir", "record", "rename"}
    \/ dpc' = "moving"

\* C16: while the target path is missing or is not a directory, no step of
\* main, organize or find_desktop changes the filesystem, the history or the
\* logs, none starts a run over the entries, and organize and find_desktop end
\* by raising.
C16_InvalidTargetNoMutation ==
    [][ ( ~IsDir(fs, Desktop) /\ ExecuteAttempt )
        => /\ fs' = fs /\ logs' = logs
           /\ PersistedIn(fs') = PersistedIn(fs)
           /\ pc' \in {"none", "ready"} /\ dpc' = "none"
           /\ last'.op \in {"organize", "find_desktop"} => last'.ret = "raise" ]_vars

\* organize has been called on a target that is a file, and has raised
C16_Witness ==
    /\ IsFile(fs, Desktop) /\ alive /\ last.op = "organize" /\ last.ret = "raise"

-----------------------------------------------------------------------------
(* C17 *)

\* a record of the shape organize writes: an entry of the target, and the same
\* name inside its category folder
RunShaped(r) == Len(r[1]) = Len(Desktop) + 1 /\ r[2] = destination(r[1])

\* C17: when an execute run ends, by returning or by raising, and nothing
\* outside the program has touched the directory, every record of a move of the
\* run that is in the persisted ledger (the history file, the run's log) is of a
\* move that was made: its file is at the record's destination.
C17_NoSpeculativeRecord ==
    [][ /\ ( last'.op = "organize" /\ ~dry' /\ budget'.ext = MaxExt )
            => \A i \in DOMAIN PersistedIn(fs') :
                  RunShaped(PersistedIn(fs')[i]) => IsFile(fs', PersistedIn(fs')[i][2])
        /\ ( dpc = "moving" /\ dpc' = "none" /\ last'.op = "clean_desktop" /\ last'.ret = "n"
             /\ budget'.ext = MaxExt /\ clock \in DOMAIN logs' /\ ParseOk(logs'[clock]) )
            => \A i \in DOMAIN parse_log(logs'[clock]) :
                  IsFile(fs', parse_log(logs'[clock])[i][2]) ]_vars

-----------------------------------------------------------------------------
(* C18 *)

\* C18: every record_move, of the library's user or of organize, leaves the
\* history one record longer with the earlier records as they were, and the
\* record organize appends is (the entry, its category folder / its name); when
\* organize returns from a collision-free run that started with an empty
\* history, no file is left in the target but a rewritten history file, and the
\* history holds one record for each of the moved files, each file being at its
\* record's destination.
C18_AppendOneAtEnd ==
    [][ /\ last'.op = "record_move"
            => /\ Len(history') = Len(history) + 1
               /\ SubSeq(history', 1, Len(history)) = history
               /\ pc = "record"
                    => history'[Len(history')] = <<cur, target_dir(cur) \o <<Name(cur)>> >>
        /\ ( last'.op = "organize" /\ snap'.phase = "executed" )
            => /\ \A p \in Children(fs', Desktop) : IsFile(fs', p) => p = history_file
               /\ \A i \in DOMAIN history' :
                     /\ RunShaped(history'[i]) /\ IsFile(fs', history'[i][2])
                     /\ \A j \in DOMAIN history' : history'[j][1] = history'[i][1] => j = i
               /\ \A p \in DOMAIN fs' :
                     ( Len(p) = Len(Desktop) + 2 /\ IsFile(fs', p) /\ fs'[p].id \in {"a", "b", "h"} )
                        => \E i \in DOMAIN history' : history'[i][2] = p ]_vars

\* a run over two files has returned
C18_Witness ==
    /\ snap.phase = "executed" /\ Len(history) >= 2 /\ last.op = "organize"

-----------------------------------------------------------------------------
(* C19 *)

\* the files that are not the program's own history file, by content
UserFiles(f) ==
    {f[p].id : p \in {q \in DOMAIN f : IsFile(f, q) /\ f[q].id \notin {"json", "garbage"}}}

\* C19: no step of either program, of an execute or of an undo, makes a file
\* disappear: every file of the filesystem before the step is at some path
\* after it.
C19_NoFileDestroyed ==
    [][ last'.op # "external" => UserFiles(fs) \subseteq UserFiles(fs') ]_vars

-----------------------------------------------------------------------------
(* C20 *)

\* C20: the history file is never the entry organize is about to move, has
\* recorded or is moving, and never an entry a dry run reports, wherever the
\* working directory is; no step of organize takes the file away from its path.
C20_LedgerFileNotOrganized ==
    [][ /\ pc' \in {"mkdir", "record", "rename"} => cur' # history_file
        /\ ( alive /\ pc = "iter" /\ dry /\ cwd = Desktop )
            => \A r \in out' \ out : r[2] # HISTORY_NAME
        /\ ( last'.op = "record_move" /\ pc = "record" )
            => history'[Len(history')][1] # history_file
        /\ ( pc = "rename" /\ IsFile(fs, history_file) ) => IsFile(fs', history_file) ]_vars

-----------------------------------------------------------------------------
(* C21 *)

\* the last thing that happened is an execute run, not a dry run, that returned
JustOrganized ==
    /\ ~dry
    /\ \/ last.op = "organize" /\ last.ret = "None"
       \/ last.op = "clean_desktop" /\ last.ret \in {"n", "0"}

\* C21: an execute run that starts right after an execute run returned finds
\* nothing to do: organize lists no file of the target and, having nothing to
\* move, changes neither the filesystem nor the history; clean_desktop returns
\* 0 at once, with the filesystem and the logs as they were.
C21_SecondRunIdle ==
    [][ /\ ( JustOrganized /\ alive /\ pc = "ready" /\ pc' = "iter" /\ ~dry' )
            => \A p \in todo' : ~Eligible(fs, p)
        /\ ( alive /\ alive' /\ pc = "iter" /\ \A p \in todo : ~Eligible(fs, p) )
            => fs' = fs /\ history' = history
        /\ ( JustOrganized /\ ~alive /\ dpc = "none" /\ ~dry'
             /\ (last'.op = "clean_desktop" \/ dpc' = "moving") )
            => /\ fs' = fs /\ logs' = logs
               /\ dpc' = "none" /\ last'.ret = "0" ]_vars

-----------------------------------------------------------------------------
(* C22 *)

\* the log that is last in name order
NewestLog(l) == CHOOSE t \in DOMAIN l : \A u \in DOMAIN l : u <= t

\* the pair is a line of the log
Listed(pair, lines) == \E i \in DOMAIN parse_log(lines) : parse_log(lines)[i] = pair

\* a step of undo_last_run
UndoStep ==
    \/ dpc = "undo" /\ last'.op # "exit"
    \/ dpc = "none" /\ (dpc' = "undo" \/ last'.op = "undo_last_run")

\* no step of undo_last_run changes a log; every move it makes takes a file
\* from the destination to the source of a line of the log that is last in name
\* order; and it leaves alone every file that sits where a line of another log,
\* which the last log does not have, says it was moved to
UndoReadsLastLog ==
    /\ UndoStep => logs' = logs
    /\ ( last'.op = "undo_move" /\ last'.ret = "True" )
        => /\ Listed(last'.rec, logs[NewestLog(logs)])
           /\ IsFile(fs', last'.rec[1]) /\ fs'[last'.rec[1]] = fs[last'.rec[2]]
           /\ ~Exists(fs', last'.rec[2])
    /\ UndoStep
        => \A t \in DOMAIN logs : \A i \in DOMAIN parse_log(logs[t]) :
              LET m == parse_log(logs[t])[i]
              IN ( ~Listed(m, logs[NewestLog(logs)]) /\ IsFile(fs, m[2]) )
                    => IsFile(fs', m[2]) /\ fs'[m[2]] = fs[m[2]]

\* C22, as amended: undo_last_run reads only the log that is last in name order
\* and changes no log, so after two cleanups that each wrote a log, however
\* often undo is invoked, only moves listed in the last log are reversed and
\* the moves listed only in the earlier log never are.
C22_UndoOnlyLastLog == [][UndoReadsLastLog]_vars

\* two cleanups have written a log each; undo, invoked again, finds the file of
\* the last log already back at its source, while a file of the earlier
\* cleanup is still where that cleanup put it
C22_Witness ==
    /\ Cardinality(DOMAIN logs) = 2
    /\ dpc = "undo" /\ dundo # <<>>
    /\ Listed(Head(dundo), logs[1])
    /\ ~Exists(fs, Head(dundo)[2]) /\ IsFile(fs, Head(dundo)[1])
    /\ \E i \in DOMAIN parse_log(logs[0]) :
          /\ ~Listed(parse_log(logs[0])[i], logs[1])
          /\ IsFile(fs, parse_log(logs[0])[i][2])

\* C22, as stated: the above, and an undo invoked right after an execute run
\* returned sets out to reverse the moves of that run and no others: none when
\* the run moved nothing.
C22_OnlyMostRecentRun ==
    [][ /\ UndoReadsLastLog
        /\ ( ~dry /\ last.op = "clean_desktop" /\ dpc = "none" /\ dpc' = "undo" )
            => /\ last.ret = "n"
               /\ clock \in DOMAIN logs /\ dundo' = parse_log(logs[clock]) ]_vars

=============================================================================
